---------------------------- MODULE Spec2Model ----------------------------
(***************************************************************************)
(* A model of the decision layer of the proxy:                             *)
(*   - inbound  accept.rs : Inbound::push_accept (direct / policy switch)  *)
(*   - outbound ingress.rs: Outbound::into_ingress (override routing)      *)
(*     with its cache, the fail-fast of the cached units and the           *)
(*     concurrency limit of the server                                     *)
(*   - dst      resolve.rs: permission filter and recovery of a Resolution *)
(* Each subsystem has its own specification; the variables of the other    *)
(* subsystems stay at their initial values.                                *)
(***************************************************************************)
EXTENDS Integers, Sequences, FiniteSets, TLC

VARIABLES
    \* ---- inbound accept ----
    proxy_port,      \* push_accept's proxy_port argument
    port_policies,   \* cfg.port_policies: [by_port, default]
    a_conn,          \* the target T of the connection being accepted, or None
    a_stage,         \* "idle" | "built" (new_service returned) | "called" (oneshot done)
    a_checked,       \* the check_allowed calls made for this connection
    a_inner,         \* the Accept handed to the inner stack's new_service, or None
    a_direct,        \* the target handed to the direct stack's new_service, or None
    a_service,       \* the service new_service returned: "inner" | "direct" | an error
    a_result,        \* the result of calling that service, or None
    \* ---- outbound ingress ----
    profile_domains, \* allow_discovery.names(): the set of allowed suffixes
    i_conn,          \* http::Accept {orig_dst, protocol} of the connection, or None
    i_detected,      \* <<>>, or <<d>> with d the detected Option<http::Version>
    i_stage,         \* where the connection or its current request stands
    i_req,           \* the request as received, or None
    i_key,           \* the Http {target, version} the router computed, or None
    i_lookups,       \* the profile lookups issued for this request
    i_profile,       \* the Option<profiles::Receiver> given to the switch
    i_route,         \* the Endpoint or Logical target the switch built, or None
    i_unit_req,      \* the request as handed to the built unit, or None
    i_error,         \* the error the connection or request failed with, or None
    \* ---- the router's cache (push_cache) ----
    c_cache,         \* key -> None, or the cached unit and its idle time
    c_pc,            \* per lookup task: "idle" | "missed" | "holding"
    c_key,           \* per task: the key it is looking up or holds
    c_handle,        \* per task: the unit instance it holds (0: none)
    c_path,          \* per task: how it got its unit: "hit" | "raced" | "built"
    c_builds,        \* key -> constructions since the key was last absent and idle
    c_units,         \* the number of units constructed so far
    u_key,           \* per unit: the key it was constructed for, or None
    u_state,         \* per unit: "unbuilt" | "pending" | "ready" | "failed" | "dropped"
    u_ff,            \* per unit, its FailFast: "open" | "waiting" | "failfast" | "recovered"
    u_elapsed,       \* per unit: time its FailFast has spent waiting for readiness
    q_phase,         \* per task, its request at the unit: "none" | "queued" | "done"
    q_result,        \* per task: the outcome of its request, or None
    \* ---- the ingress server (ConcurrencyLimit under FailFast) ----
    s_stage,         \* the connection: "idle" | "rejected" | "serving"
    s_conn,          \* http::Accept of the connection, or None
    s_error,         \* the error the connection was rejected with, or None
    s_ff,            \* the server's FailFast: "open" | "waiting" | "failfast"
    s_elapsed,       \* time the server's FailFast has spent waiting for a permit
    s_st,            \* per request: "none" | "waiting" | "inflight" | "done"
    s_rq,            \* per request: the request as received, or None
    s_key,           \* per request: the key the router computed, or None
    s_result,        \* per request: its outcome, or None
    \* ---- destination resolver ----
    name_suffixes,   \* PermitConfiguredDsts.name_suffixes
    networks,        \* PermitConfiguredDsts.networks
    r_stage,         \* the state of the Resolution
    r_target,        \* the target of the resolution request, or None
    r_filtered,      \* how often the permission filter ran for the request
    r_calls,         \* discovery calls issued for the Resolution
    r_backoffs,      \* backoff delays started for the Resolution
    r_errs,          \* the failures of the discovery call or stream, in order
    r_events,        \* updates delivered to the consumer
    r_error          \* the error the Resolution ended with, or None

None == [kind |-> "None"]

acceptVars == <<proxy_port, port_policies, a_conn, a_stage, a_checked,
                a_inner, a_direct, a_service, a_result>>

ingressVars == <<profile_domains, i_conn, i_detected, i_stage, i_req, i_key, i_lookups,
                 i_profile, i_route, i_unit_req, i_error>>

unitVars == <<u_key, u_state, u_ff, u_elapsed, q_phase, q_result>>

cacheVars == <<c_cache, c_pc, c_key, c_handle, c_path, c_builds, c_units, unitVars>>

resolveVars == <<name_suffixes, networks, r_stage, r_target, r_filtered, r_calls,
                 r_backoffs, r_errs, r_events, r_error>>

serverVars == <<s_stage, s_conn, s_error, s_ff, s_elapsed, s_st, s_rq, s_key, s_result>>

vars == <<acceptVars, ingressVars, cacheVars, serverVars, resolveVars>>

Some(x) == [kind |-> "Some", v |-> x]

(***************************************************************************)
(* Inbound accept: bounds and value sets                                   *)
(***************************************************************************)
NPorts == 3
NClients == 2

Ports == 1..NPorts
ClientIps == 1..NClients
DstIps == {1}

\* Remote<ClientAddr> and OrigDstAddr of a connection target T.
Targets == [client_addr : ClientIps, orig_dst_addr : [ip : DstIps, port : Ports]]

\* ServerPolicy: one authorization (or none), as in tests::default_allow.
Authorizations ==
    [authentication : {"Unauthenticated", "TlsAuthenticated"},
     networks : {{}, {1}, ClientIps}]

ServerPolicies ==
    {[protocol |-> "Opaque", authorizations |-> {}]}
    \cup {[protocol |-> "Opaque", authorizations |-> {a}] :
            a \in {z \in Authorizations :
                     z.authentication = "Unauthenticated" \/ z.networks = ClientIps}}

DefaultPolicies == {[kind |-> "Deny"]} \cup {[kind |-> "Allow", policy |-> p] : p \in ServerPolicies}

PortPoliciesSet == [by_port : [Ports -> ServerPolicies \cup {None}], default : DefaultPolicies]

DeniedErr(port) == [kind |-> "Err", error |-> "Denied", port |-> port]

\* PortPolicies::check_allowed(client, orig_dst): the port's policy, else the
\* default policy, else a denial.
check_allowed(pp, client, dst) ==
    IF pp.by_port[dst.port] # None
    THEN [ok |-> TRUE, policy |-> pp.by_port[dst.port]]
    ELSE IF pp.default.kind = "Allow"
         THEN [ok |-> TRUE, policy |-> pp.default.policy]
         ELSE [ok |-> FALSE, err |-> DeniedErr(dst.port)]

\* Variants of the switch closure, each with one plausible slip.
\* (a) the port test inverted.
AcceptSwitchInverted(pport, pp, t) ==
    LET addr == t.orig_dst_addr IN
    IF addr.port # pport
    THEN [branch |-> "B", value |-> t, checked |-> <<>>]
    ELSE LET r == check_allowed(pp, t.client_addr, t.orig_dst_addr) IN
         IF ~r.ok
         THEN [branch |-> "Err", value |-> r.err,
               checked |-> << <<t.client_addr, t.orig_dst_addr>> >>]
         ELSE [branch |-> "A",
               value |-> [client_addr |-> t.client_addr,
                          orig_dst_addr |-> t.orig_dst_addr,
                          policy |-> r.policy],
               checked |-> << <<t.client_addr, t.orig_dst_addr>> >>]

\* (b) a denial swallowed: the connection is passed on with an empty policy.
AcceptSwitchSwallowDeny(pport, pp, t) ==
    LET addr == t.orig_dst_addr IN
    IF addr.port = pport
    THEN [branch |-> "B", value |-> t, checked |-> <<>>]
    ELSE LET r == check_allowed(pp, t.client_addr, t.orig_dst_addr) IN
         [branch |-> "A",
          value |-> [client_addr |-> t.client_addr,
                     orig_dst_addr |-> t.orig_dst_addr,
                     policy |-> IF r.ok THEN r.policy
                                ELSE [protocol |-> "Opaque", authorizations |-> {}]],
          checked |-> << <<t.client_addr, t.orig_dst_addr>> >>]

\* (c) the looked-up policy dropped in favour of the default policy.
AcceptSwitchDefaultPolicy(pport, pp, t) ==
    LET addr == t.orig_dst_addr IN
    IF addr.port = pport
    THEN [branch |-> "B", value |-> t, checked |-> <<>>]
    ELSE LET r == check_allowed(pp, t.client_addr, t.orig_dst_addr) IN
         IF ~r.ok
         THEN [branch |-> "Err", value |-> r.err,
               checked |-> << <<t.client_addr, t.orig_dst_addr>> >>]
         ELSE [branch |-> "A",
               value |-> [client_addr |-> t.client_addr,
                          orig_dst_addr |-> t.orig_dst_addr,
                          policy |-> IF pp.default.kind = "Allow"
                                     THEN pp.default.policy ELSE r.policy],
               checked |-> << <<t.client_addr, t.orig_dst_addr>> >>]

\* The switch closure of push_accept (accept.rs:50-61), as a pure function of
\* the target: the branch taken, the lookups made and the value passed on.
AcceptSwitch(pport, pp, t) ==
    LET addr == t.orig_dst_addr IN
    IF addr.port = pport
    THEN [branch |-> "B", value |-> t, checked |-> <<>>]
    ELSE LET r == check_allowed(pp, t.client_addr, t.orig_dst_addr) IN
         IF ~r.ok
         THEN [branch |-> "Err", value |-> r.err,
               checked |-> << <<t.client_addr, t.orig_dst_addr>> >>]
         ELSE [branch |-> "A",
               value |-> [client_addr |-> t.client_addr,
                          orig_dst_addr |-> t.orig_dst_addr,
                          policy |-> r.policy],
               checked |-> << <<t.client_addr, t.orig_dst_addr>> >>]

IngressIdle ==
    /\ i_conn = None
    /\ i_detected = <<>>
    /\ i_stage = "idle"
    /\ i_req = None
    /\ i_key = None
    /\ i_lookups = <<>>
    /\ i_profile = None
    /\ i_route = None
    /\ i_unit_req = None
    /\ i_error = None

\* The cache with no key, no task and no unit.
CacheIdle ==
    /\ c_cache = <<>>
    /\ c_pc = <<>>
    /\ c_key = <<>>
    /\ c_handle = <<>>
    /\ c_path = <<>>
    /\ c_builds = <<>>
    /\ c_units = 0
    /\ u_key = <<>>
    /\ u_state = <<>>
    /\ u_ff = <<>>
    /\ u_elapsed = <<>>
    /\ q_phase = <<>>
    /\ q_result = <<>>

\* The ingress server with no connection and no request.
ServerIdle ==
    /\ s_stage = "idle"
    /\ s_conn = None
    /\ s_error = None
    /\ s_ff = "open"
    /\ s_elapsed = 0
    /\ s_st = <<>>
    /\ s_rq = <<>>
    /\ s_key = <<>>
    /\ s_result = <<>>

\* The resolver with no request.
ResolveIdle ==
    /\ r_stage = "idle"
    /\ r_target = None
    /\ r_filtered = 0
    /\ r_calls = 0
    /\ r_backoffs = 0
    /\ r_errs = <<>>
    /\ r_events = 0
    /\ r_error = None

AcceptInit ==
    /\ profile_domains = {}
    /\ IngressIdle
    /\ CacheIdle
    /\ name_suffixes = {}
    /\ networks = {}
    /\ ResolveIdle
    /\ ServerIdle
    /\ proxy_port \in Ports
    /\ port_policies \in PortPoliciesSet
    /\ a_conn = None
    /\ a_stage = "idle"
    /\ a_checked = <<>>
    /\ a_inner = None
    /\ a_direct = None
    /\ a_service = None
    /\ a_result = None

\* new_service(t) on the stack push_accept builds: the switch closure, then
\* the inner stack (Either::A), the direct stack (Either::B), or a service
\* that fails with the closure's error.
NewService(t) ==
    /\ a_stage = "idle"
    /\ LET s == AcceptSwitch(proxy_port, port_policies, t) IN
       /\ a_conn' = t
       /\ a_checked' = s.checked
       /\ a_inner' = IF s.branch = "A" THEN s.value ELSE None
       /\ a_direct' = IF s.branch = "B" THEN s.value ELSE None
       /\ a_service' = CASE s.branch = "A" -> [kind |-> "inner"]
                         [] s.branch = "B" -> [kind |-> "direct"]
                         [] OTHER -> s.value
    /\ a_stage' = "built"
    /\ UNCHANGED <<proxy_port, port_policies, a_result, ingressVars, cacheVars, serverVars,
                   resolveVars>>

\* oneshot(io) on the service: the inner and direct services of the tests
\* answer Ok(()); the error service answers its error.
CallService ==
    /\ a_stage = "built"
    /\ a_result' = IF a_service.kind \in {"inner", "direct"}
                    THEN [kind |-> "Ok"] ELSE a_service
    /\ a_stage' = "called"
    /\ UNCHANGED <<proxy_port, port_policies, a_conn, a_checked, a_inner,
                   a_direct, a_service, ingressVars, cacheVars, serverVars,
                   resolveVars>>

\* The connection ends; the stack accepts the next one.
CloseConn ==
    /\ a_stage = "called"
    /\ a_conn' = None
    /\ a_stage' = "idle"
    /\ a_checked' = <<>>
    /\ a_inner' = None
    /\ a_direct' = None
    /\ a_service' = None
    /\ a_result' = None
    /\ UNCHANGED <<proxy_port, port_policies, ingressVars, cacheVars, serverVars,
                   resolveVars>>

AcceptNext ==
    \/ \E t \in Targets : NewService(t)
    \/ CallService
    \/ CloseConn

SpecAccept == AcceptInit /\ [][AcceptNext]_vars

(***************************************************************************)
(* Inbound accept: properties                                              *)
(***************************************************************************)
a_port == a_conn.orig_dst_addr.port

\* The policy that applies to a port: its own, else the default-allow one.
PortPolicy(port) ==
    IF port_policies.by_port[port] # None THEN port_policies.by_port[port]
    ELSE IF port_policies.default.kind = "Allow" THEN port_policies.default.policy
    ELSE None

\* C1: an accepted connection goes to the direct stack if and only if the
\* port of its original destination is the proxy port; a connection to the
\* proxy port makes no policy lookup and does not build the inner stack, and
\* a connection to another port never builds the direct stack.
C1_DirectIffProxyPort ==
    a_stage # "idle" =>
        /\ (a_direct # None) <=> (a_port = proxy_port)
        /\ (a_service.kind = "direct") <=> (a_port = proxy_port)
        /\ a_port = proxy_port =>
             /\ a_checked = <<>>
             /\ a_inner = None
             /\ a_direct = a_conn
        /\ a_port # proxy_port => a_direct = None

\* A connection to the proxy port under default-deny with no policy for the
\* port, served by the direct stack.
C1_Witness ==
    /\ a_stage = "called"
    /\ a_port = proxy_port
    /\ port_policies.default.kind = "Deny"
    /\ port_policies.by_port[a_port] = None
    /\ a_direct = a_conn
    /\ a_result.kind = "Ok"

\* C2: a connection to another port than the proxy port, with no policy for
\* the port and default-deny, is denied: the service fails with the denial
\* and the inner stack is never built for it.
C2_DefaultDeny ==
    (/\ a_stage # "idle"
     /\ a_port # proxy_port
     /\ port_policies.by_port[a_port] = None
     /\ port_policies.default.kind = "Deny") =>
        /\ a_service = DeniedErr(a_port)
        /\ a_inner = None
        /\ a_direct = None
        /\ a_stage = "called" => a_result = DeniedErr(a_port)

\* A denied connection: default-deny, no policy for its port, the call made.
C2_Witness ==
    /\ a_stage = "called"
    /\ a_port # proxy_port
    /\ port_policies.by_port[a_port] = None
    /\ port_policies.default.kind = "Deny"
    /\ a_result.kind = "Err"
    /\ a_result.error = "Denied"

\* The connection's policy has an authorization with unauthenticated access
\* and a network containing the client address.
UnauthenticatedMatch ==
    /\ PortPolicy(a_port) # None
    /\ \E z \in PortPolicy(a_port).authorizations :
          /\ z.authentication = "Unauthenticated"
          /\ a_conn.client_addr \in z.networks

\* C3: a connection to a non-proxy port whose policy has an unauthenticated
\* authorization with a matching network is classified successfully, and the
\* inner stack receives an Accept with the port's policy and the
\* connection's client and original destination addresses.
C3_AcceptCarriesPolicy ==
    (/\ a_stage # "idle"
     /\ a_port # proxy_port
     /\ UnauthenticatedMatch) =>
        /\ a_service.kind = "inner"
        /\ a_inner = [client_addr |-> a_conn.client_addr,
                      orig_dst_addr |-> a_conn.orig_dst_addr,
                      policy |-> PortPolicy(a_port)]
        /\ a_checked = << <<a_conn.client_addr, a_conn.orig_dst_addr>> >>
        /\ a_stage = "called" => a_result.kind = "Ok"

\* Such a connection, on a port with its own policy that differs from the
\* default-allow policy.
C3_Witness ==
    /\ a_stage = "called"
    /\ a_port # proxy_port
    /\ UnauthenticatedMatch
    /\ port_policies.by_port[a_port] # None
    /\ port_policies.default.kind = "Allow"
    /\ port_policies.default.policy # port_policies.by_port[a_port]
    /\ a_inner # None
    /\ a_inner.policy = port_policies.by_port[a_port]

(***************************************************************************)
(* Outbound ingress: Outbound::into_ingress                                *)
(***************************************************************************)
\* The inbound variables, at rest while another subsystem runs.
AcceptIdle ==
    /\ proxy_port = 1
    /\ port_policies = [by_port |-> [p \in Ports |-> None], default |-> [kind |-> "Deny"]]
    /\ a_conn = None
    /\ a_stage = "idle"
    /\ a_checked = <<>>
    /\ a_inner = None
    /\ a_direct = None
    /\ a_service = None
    /\ a_result = None

\* Header values are strings over a small alphabet, up to MaxHeaderLen long.
MaxHeaderLen == 3
DefaultPort == 80

LabelChars == {"a", "b"}
DigitChars == {"8"}
HeaderChars == LabelChars \cup DigitChars \cup {".", ":", " "}

StringsUpTo(n) == UNION {[1..k -> HeaderChars] : k \in 0..n}
HeaderValues == StringsUpTo(MaxHeaderLen)

\* A request: the value of its l5d-dst-override header, if it has one.
Requests == {[dst_override |-> None]} \cup {[dst_override |-> Some(h)] : h \in HeaderValues}

OrigDsts == {[ip |-> 1, port |-> 1], [ip |-> 2, port |-> 2]}
Versions == {"Http1", "H2"}
\* What protocol detection found on the connection: an HTTP version or nothing.
Detected == {None} \cup {Some(v) : v \in Versions}

\* dns::Suffix values that may be configured; <<".">> is the root suffix.
Suffixes == {<<".">>, <<"a">>, <<"b">>}

InvalidOverrideHeader == [kind |-> "Err", error |-> "InvalidOverrideHeader"]
ProfileRequired == [kind |-> "Err", error |-> "ProfileRequired"]
IngressHttpOnly == [kind |-> "Err", error |-> "IngressHttpOnly"]
DiscoveryRejected == [kind |-> "Err", error |-> "DiscoveryRejected"]

\* http::authority_from_header(req, DST_OVERRIDE_HEADER): the header's value
\* when the request has the header.
authority_from_header(req) == req.dst_override

RECURSIVE DigitsToNat(_)
DigitsToNat(d) ==
    IF d = <<>> THEN 0
    ELSE 10 * DigitsToNat(SubSeq(d, 1, Len(d) - 1))
         + (CASE d[Len(d)] = "8" -> 8 [] OTHER -> 0)

\* A host name: non-empty labels of label characters and digits, separated
\* by single dots.
ValidHost(h) ==
    /\ h # <<>>
    /\ \A i \in DOMAIN h : h[i] \in LabelChars \cup DigitChars \cup {"."}
    /\ h[1] # "."
    /\ h[Len(h)] # "."
    /\ \A i \in 1..(Len(h) - 1) : ~(h[i] = "." /\ h[i + 1] = ".")

\* NameAddr::from_authority_with_default_port(a, default_port): host[:port],
\* the port being default_port when the value has none.
from_authority_with_default_port(a, default_port) ==
    LET colons == {i \in DOMAIN a : a[i] = ":"} IN
    IF colons = {}
    THEN IF ValidHost(a)
         THEN [ok |-> TRUE, addr |-> [name |-> a, port |-> default_port]]
         ELSE [ok |-> FALSE]
    ELSE IF Cardinality(colons) > 1 THEN [ok |-> FALSE]
    ELSE LET c == CHOOSE i \in colons : TRUE
             host == SubSeq(a, 1, c - 1)
             port == SubSeq(a, c + 1, Len(a))
         IN IF /\ ValidHost(host)
               /\ port # <<>>
               /\ \A i \in DOMAIN port : port[i] \in DigitChars
            THEN [ok |-> TRUE, addr |-> [name |-> host, port |-> DigitsToNat(port)]]
            ELSE [ok |-> FALSE]

Forward(orig_dst) == [kind |-> "Forward", addr |-> orig_dst]
Override(dst) == [kind |-> "Override", addr |-> dst]

\* Variants of the router's closure: (a) an unparseable override falls back
\* to the original destination; (b) another default port.
ExtractTargetFallback(accept, req) ==
    LET h == authority_from_header(req) IN
    IF h = None \/ ~from_authority_with_default_port(h.v, DefaultPort).ok
    THEN [ok |-> TRUE,
          key |-> [target |-> Forward(accept.orig_dst), version |-> accept.protocol]]
    ELSE [ok |-> TRUE,
          key |-> [target |-> Override(from_authority_with_default_port(h.v, DefaultPort).addr),
                   version |-> accept.protocol]]

\* (c) an unparseable override is reported with the error of another path.
ExtractTargetWrongError(accept, req) ==
    LET h == authority_from_header(req) IN
    IF h = None
    THEN [ok |-> TRUE,
          key |-> [target |-> Forward(accept.orig_dst), version |-> accept.protocol]]
    ELSE LET r == from_authority_with_default_port(h.v, DefaultPort) IN
         IF ~r.ok
         THEN [ok |-> FALSE, err |-> ProfileRequired]
         ELSE [ok |-> TRUE,
               key |-> [target |-> Override(r.addr), version |-> accept.protocol]]

\* The NewRouter closure (ingress.rs:173-189): the cache key of a request.
ExtractTarget(accept, req) ==
    LET h == authority_from_header(req) IN
    IF h = None
    THEN [ok |-> TRUE,
          key |-> [target |-> Forward(accept.orig_dst), version |-> accept.protocol]]
    ELSE LET r == from_authority_with_default_port(h.v, DefaultPort) IN
         IF ~r.ok
         THEN [ok |-> FALSE, err |-> InvalidOverrideHeader]
         ELSE [ok |-> TRUE,
               key |-> [target |-> Override(r.addr), version |-> accept.protocol]]

\* dns::Suffix::contains(name): the root suffix contains every name; another
\* suffix contains the names that end with it at a label boundary.
SuffixContains(suffix, name) ==
    \/ suffix = <<".">>
    \/ /\ Len(name) >= Len(suffix)
       /\ SubSeq(name, Len(name) - Len(suffix) + 1, Len(name)) = suffix
       /\ \/ Len(name) = Len(suffix)
          \/ name[Len(name) - Len(suffix)] = "."

\* NameMatch::matches(name)
DomainsMatch(domains, name) == \E sfx \in domains : SuffixContains(sfx, name)

\* A variant of the discovery filter that looks up every override, whatever
\* the configured domains.
DiscoverFilterNoDomainCheck(domains, h) ==
    IF h.target.kind = "Override"
    THEN [ok |-> TRUE, lookup |-> h.target.addr]
    ELSE [ok |-> FALSE, err |-> DiscoveryRejected]

\* The filter given to profiles::discover::layer (ingress.rs:132-148).
DiscoverFilter(domains, h) ==
    IF h.target.kind = "Override" /\ DomainsMatch(domains, h.target.addr.name)
    THEN [ok |-> TRUE, lookup |-> h.target.addr]
    ELSE [ok |-> FALSE, err |-> DiscoveryRejected]

EndpointTarget(addr, version) ==
    [kind |-> "Endpoint",
     addr |-> addr,
     metadata |-> "default",
     logical_addr |-> None,
     protocol |-> version,
     opaque_protocol |-> FALSE,
     tls |-> [kind |-> "NoClientTls", reason |-> "IngressWithoutOverride"]]

LogicalTarget(profile, logical_addr, version) ==
    [kind |-> "Logical",
     profile |-> profile,
     logical_addr |-> logical_addr,
     protocol |-> version]

\* Variants of the switch closure.
\* (a) a profile without a logical address is accepted, the override's own
\*     address standing in for it.
SwitchTargetLogicalWithoutAddr(profile, h) ==
    IF h.target.kind = "Forward"
    THEN [ok |-> TRUE, route |-> EndpointTarget(h.target.addr, h.version)]
    ELSE IF profile # None
    THEN [ok |-> TRUE,
          route |-> LogicalTarget(profile,
                                  IF profile.v.addr # None THEN profile.v.addr.v
                                  ELSE h.target.addr,
                                  h.version)]
    ELSE [ok |-> FALSE, err |-> ProfileRequired]

\* (b) an override without a usable profile is routed through the endpoint
\*     stack, to the override's address.
SwitchTargetOverrideEndpoint(profile, h) ==
    IF h.target.kind = "Forward"
    THEN [ok |-> TRUE, route |-> EndpointTarget(h.target.addr, h.version)]
    ELSE IF profile # None /\ profile.v.addr # None
    THEN [ok |-> TRUE, route |-> LogicalTarget(profile, profile.v.addr.v, h.version)]
    ELSE [ok |-> TRUE, route |-> EndpointTarget(h.target.addr, h.version)]

\* (c) the profile is looked at before the kind of the target.
SwitchTargetProfileFirst(profile, h) ==
    IF profile # None /\ profile.v.addr # None
    THEN [ok |-> TRUE, route |-> LogicalTarget(profile, profile.v.addr.v, h.version)]
    ELSE IF h.target.kind = "Forward"
    THEN [ok |-> TRUE, route |-> EndpointTarget(h.target.addr, h.version)]
    ELSE [ok |-> FALSE, err |-> ProfileRequired]

\* The push_switch closure (ingress.rs:98-129): the endpoint stack's target,
\* the logical stack's target, or ProfileRequired.
SwitchTarget(profile, h) ==
    IF h.target.kind = "Forward"
    THEN [ok |-> TRUE, route |-> EndpointTarget(h.target.addr, h.version)]
    ELSE IF profile # None /\ profile.v.addr # None
    THEN [ok |-> TRUE, route |-> LogicalTarget(profile, profile.v.addr.v, h.version)]
    ELSE [ok |-> FALSE, err |-> ProfileRequired]

\* What a profile lookup for dst may answer: no profile, a profile without a
\* logical address, or a profile with one (dst itself or a canonical name).
CanonicalAddr == [name |-> <<"a", ".", "b">>, port |-> DefaultPort]
ProfileAnswers(dst) ==
    {None, Some([addr |-> None]), Some([addr |-> Some(dst)]),
     Some([addr |-> Some(CanonicalAddr)])}

IngressInit ==
    /\ AcceptIdle
    /\ CacheIdle
    /\ name_suffixes = {}
    /\ networks = {}
    /\ ResolveIdle
    /\ ServerIdle
    /\ profile_domains \in SUBSET Suffixes
    /\ IngressIdle

\* A request filter that takes an undetected protocol for HTTP/1.
RequestFilterAssumeHttp1(detected, orig_dst) ==
    [ok |-> TRUE,
     accept |-> [orig_dst |-> orig_dst,
                 protocol |-> IF detected = None THEN "Http1" ELSE detected.v]]

\* The request filter on (Option<http::Version>, tcp::Accept)
\* (ingress.rs:208-211): http.map(|h| http::Accept::from((h, accept)))
\* .ok_or(IngressHttpOnly).
RequestFilter(detected, orig_dst) ==
    IF detected = None
    THEN [ok |-> FALSE, err |-> IngressHttpOnly]
    ELSE [ok |-> TRUE,
          accept |-> [orig_dst |-> orig_dst, protocol |-> detected.v]]

\* A connection is accepted and its protocol detected; the request filter
\* admits HTTP connections only.
AcceptIngressConn(orig_dst, detected) ==
    /\ i_stage = "idle"
    /\ i_detected' = <<detected>>
    /\ LET f == RequestFilter(detected, orig_dst) IN
       IF ~f.ok
       THEN /\ i_stage' = "rejected"
            /\ i_error' = f.err
            /\ i_conn' = None
       ELSE /\ i_stage' = "conn"
            /\ i_error' = None
            /\ i_conn' = f.accept
    /\ UNCHANGED <<profile_domains, i_req, i_key, i_lookups, i_profile, i_route,
                   i_unit_req, acceptVars, cacheVars, serverVars,
                   resolveVars>>

\* A request arrives on the connection; the router computes its key.
RouteRequest(req) ==
    /\ i_stage = "conn"
    /\ i_req' = req
    /\ LET r == ExtractTarget(i_conn, req) IN
       IF r.ok
       THEN /\ i_key' = r.key
            /\ i_stage' = "routed"
            /\ i_error' = None
       ELSE /\ i_key' = None
            /\ i_stage' = "failed"
            /\ i_error' = r.err
    /\ UNCHANGED <<profile_domains, i_conn, i_detected, i_lookups, i_profile, i_route,
                   i_unit_req, acceptVars, cacheVars, serverVars,
                   resolveVars>>

\* The unit for the key is made: the discover layer looks the profile up when
\* the filter allows it, and otherwise goes on without a profile.
Discover ==
    /\ i_stage = "routed"
    /\ LET f == DiscoverFilter(profile_domains, i_key) IN
       IF f.ok
       THEN \E answer \in ProfileAnswers(f.lookup) :
               /\ i_lookups' = Append(i_lookups, f.lookup)
               /\ i_profile' = answer
       ELSE /\ i_lookups' = i_lookups
            /\ i_profile' = None
    /\ i_stage' = "discovered"
    /\ UNCHANGED <<profile_domains, i_conn, i_detected, i_req, i_key, i_route, i_unit_req,
                   i_error, acceptVars, cacheVars, serverVars,
                   resolveVars>>

\* The switch builds the endpoint or logical stack for the key, or fails.
BuildRoute ==
    /\ i_stage = "discovered"
    /\ LET r == SwitchTarget(i_profile, i_key) IN
       IF r.ok
       THEN /\ i_route' = r.route
            /\ i_stage' = "built"
            /\ i_error' = None
       ELSE /\ i_route' = None
            /\ i_stage' = "failed"
            /\ i_error' = r.err
    /\ UNCHANGED <<profile_domains, i_conn, i_detected, i_req, i_key, i_lookups, i_profile,
                   i_unit_req, acceptVars, cacheVars, serverVars,
                   resolveVars>>

\* A router that hands the request on with its headers untouched.
StripHeaderKeep(req) == req

\* strip_header::request (ingress.rs:163): the request reaches the unit
\* without the override header.
StripHeader(req) == [req EXCEPT !.dst_override = None]

Dispatch ==
    /\ i_stage = "built"
    /\ i_unit_req' = StripHeader(i_req)
    /\ i_stage' = "dispatched"
    /\ UNCHANGED <<profile_domains, i_conn, i_detected, i_req, i_key, i_lookups, i_profile,
                   i_route, i_error, acceptVars, cacheVars, serverVars,
                   resolveVars>>

\* The request is over (served or failed); the connection takes the next one.
EndRequest ==
    /\ i_stage \in {"dispatched", "failed"}
    /\ i_stage' = "conn"
    /\ i_req' = None
    /\ i_key' = None
    /\ i_lookups' = <<>>
    /\ i_profile' = None
    /\ i_route' = None
    /\ i_unit_req' = None
    /\ i_error' = None
    /\ UNCHANGED <<profile_domains, i_conn, i_detected, acceptVars, cacheVars, serverVars,
                   resolveVars>>

\* The connection is closed.
CloseIngressConn ==
    /\ i_stage \in {"conn", "rejected"}
    /\ i_stage' = "idle"
    /\ i_conn' = None
    /\ i_detected' = <<>>
    /\ i_error' = None
    /\ UNCHANGED <<profile_domains, i_req, i_key, i_lookups, i_profile, i_route,
                   i_unit_req, acceptVars, cacheVars, serverVars,
                   resolveVars>>

IngressNext ==
    \/ \E o \in OrigDsts, d \in Detected : AcceptIngressConn(o, d)
    \/ \E r \in Requests : RouteRequest(r)
    \/ Discover
    \/ BuildRoute
    \/ Dispatch
    \/ EndRequest
    \/ CloseIngressConn

SpecIngress == IngressInit /\ [][IngressNext]_vars

(***************************************************************************)
(* Outbound ingress: properties                                            *)
(***************************************************************************)
\* A request has been received and the router has run on it.
Routed == i_req # None

\* The switch has run on the request's key.
Switched == i_key # None /\ i_stage \in {"built", "dispatched", "failed"}

IsOverride == i_key.target.kind = "Override"
InDomain == \E sfx \in profile_domains : SuffixContains(sfx, i_key.target.addr.name)

\* C4: the routing target comes from the l5d-dst-override header alone:
\* no header gives Forward(original destination); a header that parses as
\* host[:port] gives Override(host:port), with port 80 when it has no port;
\* a header that does not parse fails the request with InvalidOverrideHeader
\* and never gives a Forward target.
C4_TargetFromHeader ==
    Routed =>
        LET h == i_req.dst_override IN
        IF h = None
        THEN /\ i_key # None
             /\ i_key.target = Forward(i_conn.orig_dst)
             /\ i_key.version = i_conn.protocol
             /\ i_error # InvalidOverrideHeader
        ELSE LET r == from_authority_with_default_port(h.v, DefaultPort) IN
             IF r.ok
             THEN /\ i_key # None
                  /\ i_key.target = Override(r.addr)
                  /\ i_key.version = i_conn.protocol
                  /\ (\A i \in DOMAIN h.v : h.v[i] # ":") =>
                        i_key.target.addr = [name |-> h.v, port |-> 80]
             ELSE /\ i_key = None
                  /\ i_stage = "failed"
                  /\ i_error = InvalidOverrideHeader
                  /\ i_route = None
                  /\ i_unit_req = None

\* A request whose override header is present and is no host[:port], failed.
C4_Witness ==
    /\ Routed
    /\ i_req.dst_override # None
    /\ ~from_authority_with_default_port(i_req.dst_override.v, DefaultPort).ok
    /\ i_stage = "failed"
    /\ i_error = InvalidOverrideHeader

\* C5: a profile lookup is issued only for an Override target whose name is
\* in a configured profile domain; a Forward target and an Override target
\* outside the domains never cause a lookup.
C5_LookupOnlyInDomain ==
    /\ i_lookups # <<>> =>
          /\ i_key # None
          /\ IsOverride
          /\ InDomain
          /\ i_lookups = <<i_key.target.addr>>
    /\ (i_key # None /\ (~IsOverride \/ ~InDomain)) =>
          /\ i_lookups = <<>>
          /\ i_profile = None

\* A lookup issued for an override in a configured domain other than the root.
C5_Witness ==
    /\ i_stage = "discovered"
    /\ i_lookups # <<>>
    /\ IsOverride
    /\ <<".">> \notin profile_domains
    /\ InDomain

\* C6: for an Override target in a configured profile domain, no profile or
\* a profile without a logical address fails the route with ProfileRequired
\* and nothing is routed; a profile with a logical address gives a logical
\* route for that address.
C6_ProfileRequired ==
    (Switched /\ IsOverride /\ InDomain) =>
        /\ i_lookups = <<i_key.target.addr>>
        /\ IF i_profile = None \/ i_profile.v.addr = None
           THEN /\ i_stage = "failed"
                /\ i_error = ProfileRequired
                /\ i_route = None
                /\ i_unit_req = None
           ELSE /\ i_stage # "failed"
                /\ i_error = None
                /\ i_route = LogicalTarget(i_profile, i_profile.v.addr.v, i_key.version)

\* An in-domain override whose lookup answered a profile without an address.
C6_Witness ==
    /\ Switched
    /\ IsOverride
    /\ InDomain
    /\ i_profile # None
    /\ i_profile.v.addr = None
    /\ i_error = ProfileRequired

\* C7 as stated: an Override target outside all configured profile domains
\* is routed, not failed, through an endpoint route to the override's address.
C7_OutOfDomainRoutedAsEndpoint ==
    (Switched /\ IsOverride /\ ~InDomain) =>
        /\ i_stage # "failed"
        /\ i_error = None
        /\ i_route # None
        /\ i_route.kind = "Endpoint"
        /\ i_route.addr = i_key.target.addr

\* C7, amended: for an Override target outside all configured profile
\* domains discovery is skipped and the request fails with ProfileRequired;
\* no route is built, neither to the override's address nor to the
\* connection's original destination.
C7_OutOfDomainProfileRequired ==
    (Switched /\ IsOverride /\ ~InDomain) =>
        /\ i_lookups = <<>>
        /\ i_profile = None
        /\ i_stage = "failed"
        /\ i_error = ProfileRequired
        /\ i_route = None
        /\ i_unit_req = None

\* An override outside the (non-empty) configured domains, after the switch.
C7_Witness ==
    /\ Switched
    /\ IsOverride
    /\ profile_domains # {}
    /\ ~InDomain
    /\ i_error = ProfileRequired

\* C8: a Forward target gives, whatever the profile input, an endpoint route
\* to the connection's original destination with default metadata, no
\* logical address and TLS disabled for 'ingress without override'; it never
\* gives a logical route and never fails with ProfileRequired.
C8_ForwardIsEndpoint ==
    (i_key # None /\ ~IsOverride) =>
        /\ \A p \in ProfileAnswers(CanonicalAddr) :
              LET r == SwitchTarget(p, i_key) IN
              /\ r.ok
              /\ r.route.kind = "Endpoint"
              /\ r.route.addr = i_conn.orig_dst
              /\ r.route.metadata = "default"
              /\ r.route.logical_addr = None
              /\ r.route.protocol = i_conn.protocol
              /\ r.route.tls = [kind |-> "NoClientTls", reason |-> "IngressWithoutOverride"]
        /\ i_error # ProfileRequired
        /\ i_stage \in {"built", "dispatched"} =>
              i_route = EndpointTarget(i_conn.orig_dst, i_conn.protocol)

\* A request without the header, served through the endpoint route.
C8_Witness ==
    /\ i_stage = "dispatched"
    /\ ~IsOverride
    /\ i_route.kind = "Endpoint"
    /\ i_route.addr = i_conn.orig_dst

(***************************************************************************)
(* The router's cache: push_cache(cache_max_idle_age) under NewRouter      *)
(***************************************************************************)
NTasks == 2
MaxUnits == 3
MaxIdleAge == 2
DispatchTimeout == 1

Tasks == 1..NTasks

\* Http {target, version} keys the router may compute.
CacheKeys ==
    {[target |-> Forward([ip |-> 1, port |-> 1]), version |-> "Http1"],
     [target |-> Override([name |-> <<"a">>, port |-> DefaultPort]), version |-> "H2"]}

Units == 1..MaxUnits

\* The two durations of the configuration swapped at their use.
CacheIdleAgeSwapped == DispatchTimeout
DispatchTimeoutSwapped == MaxIdleAge

\* config.proxy.cache_max_idle_age, given to push_cache (ingress.rs:86, 160)
cache_max_idle_age == MaxIdleAge

\* config.proxy.dispatch_timeout, given to FailFast::layer
\* (ingress.rs:84, 157, 202)
dispatch_timeout == DispatchTimeout

Holders(k) == {t \in Tasks : c_pc[t] = "holding" /\ c_key[t] = k}

OutsideCache == UNCHANGED <<acceptVars, ingressVars, serverVars, resolveVars>>

CacheInit ==
    /\ c_cache = [k \in CacheKeys |-> None]
    /\ c_pc = [t \in Tasks |-> "idle"]
    /\ c_key = [t \in Tasks |-> None]
    /\ c_handle = [t \in Tasks |-> 0]
    /\ c_path = [t \in Tasks |-> "none"]
    /\ c_builds = [k \in CacheKeys |-> 0]
    /\ c_units = 0
    /\ u_key = [u \in Units |-> None]
    /\ u_state = [u \in Units |-> "unbuilt"]
    /\ u_ff = [u \in Units |-> "open"]
    /\ u_elapsed = [u \in Units |-> 0]
    /\ q_phase = [t \in Tasks |-> "none"]
    /\ q_result = [t \in Tasks |-> None]

\* Cache::new_service, first half: under the read lock, a cached unit is
\* returned with a handle on it; a miss goes on to the write lock.
CacheRead(t, k) ==
    /\ c_pc[t] = "idle"
    /\ c_key' = [c_key EXCEPT ![t] = k]
    /\ IF c_cache[k] # None
       THEN /\ c_pc' = [c_pc EXCEPT ![t] = "holding"]
            /\ c_handle' = [c_handle EXCEPT ![t] = c_cache[k].unit]
            /\ c_path' = [c_path EXCEPT ![t] = "hit"]
            /\ c_cache' = [c_cache EXCEPT ![k].idle = 0]
       ELSE /\ c_pc' = [c_pc EXCEPT ![t] = "missed"]
            /\ UNCHANGED <<c_handle, c_path, c_cache>>
    /\ UNCHANGED <<c_builds, c_units, unitVars>>
    /\ OutsideCache

\* The unit is made anew for the request; the cache is not asked.
NewUncached(t, k) ==
    /\ c_pc[t] = "idle"
    /\ c_units < MaxUnits
    /\ c_key' = [c_key EXCEPT ![t] = k]
    /\ c_units' = c_units + 1
    /\ c_builds' = [c_builds EXCEPT ![k] = @ + 1]
    /\ c_pc' = [c_pc EXCEPT ![t] = "holding"]
    /\ c_handle' = [c_handle EXCEPT ![t] = c_units + 1]
    /\ c_path' = [c_path EXCEPT ![t] = "built"]
    /\ u_key' = [u_key EXCEPT ![c_units + 1] = k]
    /\ u_state' = [u_state EXCEPT ![c_units + 1] = "pending"]
    /\ UNCHANGED <<c_cache, u_ff, u_elapsed, q_phase, q_result>>
    /\ OutsideCache

\* The router obtains the inner service of a request's key from the cache
\* (ingress.rs:160-172).
NewInnerService(t, k) == CacheRead(t, k)

\* Cache::new_service, second half: under the write lock, the entry another
\* task inserted meanwhile is used; a vacant entry is filled with a unit
\* constructed now.
CacheWrite(t) ==
    /\ c_pc[t] = "missed"
    /\ LET k == c_key[t] IN
       IF c_cache[k] # None
       THEN /\ c_handle' = [c_handle EXCEPT ![t] = c_cache[k].unit]
            /\ c_path' = [c_path EXCEPT ![t] = "raced"]
            /\ c_cache' = [c_cache EXCEPT ![k].idle = 0]
            /\ UNCHANGED <<c_builds, c_units, u_key, u_state>>
       ELSE /\ c_units < MaxUnits
            /\ c_units' = c_units + 1
            /\ u_key' = [u_key EXCEPT ![c_units + 1] = k]
            /\ u_state' = [u_state EXCEPT ![c_units + 1] = "pending"]
            /\ c_builds' = [c_builds EXCEPT ![k] = @ + 1]
            /\ c_cache' = [c_cache EXCEPT ![k] = [unit |-> c_units + 1, idle |-> 0]]
            /\ c_handle' = [c_handle EXCEPT ![t] = c_units + 1]
            /\ c_path' = [c_path EXCEPT ![t] = "built"]
    /\ c_pc' = [c_pc EXCEPT ![t] = "holding"]
    /\ UNCHANGED <<c_key, u_ff, u_elapsed, q_phase, q_result>>
    /\ OutsideCache

\* The request is over: its handle on the unit is dropped.
CacheRelease(t) ==
    /\ c_pc[t] = "holding"
    /\ c_pc' = [c_pc EXCEPT ![t] = "idle"]
    /\ c_key' = [c_key EXCEPT ![t] = None]
    /\ c_handle' = [c_handle EXCEPT ![t] = 0]
    /\ c_path' = [c_path EXCEPT ![t] = "none"]
    /\ q_phase' = [q_phase EXCEPT ![t] = "none"]
    /\ q_result' = [q_result EXCEPT ![t] = None]
    /\ UNCHANGED <<c_cache, c_builds, c_units, u_key, u_state, u_ff, u_elapsed>>
    /\ OutsideCache

\* Time passes for an entry nobody holds.
CacheTick(k) ==
    /\ c_cache[k] # None
    /\ Holders(k) = {}
    /\ c_cache[k].idle < cache_max_idle_age
    /\ c_cache' = [c_cache EXCEPT ![k].idle = @ + 1]
    /\ UNCHANGED <<c_pc, c_key, c_handle, c_path, c_builds, c_units, unitVars>>
    /\ OutsideCache

\* An entry nobody held for the idle age is removed, and its unit dropped
\* with it: the cache held the last reference.
CacheEvict(k) ==
    /\ c_cache[k] # None
    /\ Holders(k) = {}
    /\ c_cache[k].idle >= cache_max_idle_age
    /\ c_cache' = [c_cache EXCEPT ![k] = None]
    /\ c_builds' = [c_builds EXCEPT ![k] = 0]
    /\ u_state' = [u_state EXCEPT ![c_cache[k].unit] = "dropped"]
    /\ u_ff' = [u_ff EXCEPT ![c_cache[k].unit] = "open"]
    /\ u_elapsed' = [u_elapsed EXCEPT ![c_cache[k].unit] = 0]
    /\ UNCHANGED <<c_pc, c_key, c_handle, c_path, c_units, u_key, q_phase, q_result>>
    /\ OutsideCache

(***************************************************************************)
(* The cached unit: SpawnReady, FailFast and the buffer in front of it     *)
(* (ingress.rs:149-159)                                                    *)
(***************************************************************************)

\* The error of a FailFast layer that gave up waiting for its inner service;
\* scope is the name the layer was given.
FailFastError(scope) == [kind |-> "Err", error |-> "FailFast", scope |-> scope]

Ok(u) == [kind |-> "Ok", unit |-> u]

\* The unit is referenced by the cache or by a handle.
Alive(u) ==
    \/ \E k \in CacheKeys : c_cache[k] # None /\ c_cache[k].unit = u
    \/ \E t \in Tasks : c_pc[t] = "holding" /\ c_handle[t] = u

\* The requests waiting in the buffer of unit u.
Queued(u) ==
    {t \in Tasks : c_pc[t] = "holding" /\ c_handle[t] = u /\ q_phase[t] = "queued"}

\* A unit whose readiness is polled only on behalf of a waiting request.
ReadinessOnDemand(u) == Queued(u) # {}

\* SpawnReady (ingress.rs:151-156): a spawned task drives the unit to
\* readiness, whether or not a request is waiting for it.
DrivesReadiness(u) == TRUE

\* What the construction behind the unit comes to for key k: the profile
\* lookup, if the discovery filter lets it happen, and then the switch.
UnitOutcomes(k) ==
    LET f == DiscoverFilter(profile_domains, k)
        answers == IF f.ok THEN ProfileAnswers(f.lookup) ELSE {None}
    IN  {IF SwitchTarget(a, k).ok THEN Ok(0) ELSE SwitchTarget(a, k).err : a \in answers}

\* The request of task t, which holds a handle on its unit, is sent to the
\* unit through the buffer.  A ready unit serves it, a failed unit answers
\* its error, a unit in fail-fast answers the fail-fast error at once;
\* otherwise the request waits, and the FailFast timer is started by the
\* first request that finds the unit unready.
UnitCall(t) ==
    /\ c_pc[t] = "holding"
    /\ q_phase[t] = "none"
    /\ LET u == c_handle[t] IN
       CASE u_state[u] = "ready" ->
               /\ q_phase' = [q_phase EXCEPT ![t] = "done"]
               /\ q_result' = [q_result EXCEPT ![t] = Ok(u)]
               /\ UNCHANGED <<u_ff, u_elapsed>>
         [] u_state[u] = "failed" ->
               /\ q_phase' = [q_phase EXCEPT ![t] = "done"]
               /\ q_result' = [q_result EXCEPT ![t] = ProfileRequired]
               /\ UNCHANGED <<u_ff, u_elapsed>>
         [] u_state[u] = "pending" /\ u_ff[u] = "failfast" ->
               /\ q_phase' = [q_phase EXCEPT ![t] = "done"]
               /\ q_result' = [q_result EXCEPT ![t] = FailFastError("HTTP Logical")]
               /\ UNCHANGED <<u_ff, u_elapsed>>
         [] u_state[u] = "pending" /\ u_ff[u] = "waiting" ->
               /\ q_phase' = [q_phase EXCEPT ![t] = "queued"]
               /\ UNCHANGED <<q_result, u_ff, u_elapsed>>
         [] u_state[u] = "pending" /\ u_ff[u] = "open" ->
               /\ q_phase' = [q_phase EXCEPT ![t] = "queued"]
               /\ u_ff' = [u_ff EXCEPT ![u] = "waiting"]
               /\ u_elapsed' = [u_elapsed EXCEPT ![u] = 0]
               /\ UNCHANGED q_result
    /\ UNCHANGED <<c_cache, c_pc, c_key, c_handle, c_path, c_builds, c_units,
                   u_key, u_state>>
    /\ OutsideCache

\* Time passes for a unit whose FailFast is waiting for readiness, and so
\* for the requests queued on it.
UnitTick(u) ==
    /\ u_state[u] = "pending"
    /\ Alive(u)
    /\ u_ff[u] = "waiting"
    /\ u_elapsed[u] < dispatch_timeout
    /\ u_elapsed' = [u_elapsed EXCEPT ![u] = @ + 1]
    /\ UNCHANGED <<c_cache, c_pc, c_key, c_handle, c_path, c_builds, c_units,
                   u_key, u_state, u_ff, q_phase, q_result>>
    /\ OutsideCache

\* The dispatch timeout elapsed without the unit becoming ready: FailFast
\* enters fail-fast and the buffer hands it every queued request, each of
\* which fails.  Unit and cache are left as they are.
UnitTimeout(u) ==
    /\ u_state[u] = "pending"
    /\ Alive(u)
    /\ u_ff[u] = "waiting"
    /\ u_elapsed[u] >= dispatch_timeout
    /\ u_ff' = [u_ff EXCEPT ![u] = "failfast"]
    /\ u_elapsed' = [u_elapsed EXCEPT ![u] = 0]
    /\ q_phase' = [t \in Tasks |-> IF t \in Queued(u) THEN "done" ELSE q_phase[t]]
    /\ q_result' = [t \in Tasks |-> IF t \in Queued(u)
                                     THEN FailFastError("HTTP Logical")
                                     ELSE q_result[t]]
    /\ UNCHANGED <<c_cache, c_pc, c_key, c_handle, c_path, c_builds, c_units,
                   u_key, u_state>>
    /\ OutsideCache

\* The construction behind the unit completes: the unit is ready, or failed
\* for good; FailFast opens again and the queued requests are dispatched.
UnitReady(u) ==
    /\ u_state[u] = "pending"
    /\ Alive(u)
    /\ DrivesReadiness(u)
    /\ \E o \in UnitOutcomes(u_key[u]) :
          /\ u_state' = [u_state EXCEPT ![u] = IF o.kind = "Ok" THEN "ready" ELSE "failed"]
          /\ q_result' = [t \in Tasks |-> IF t \in Queued(u)
                                           THEN (IF o.kind = "Ok" THEN Ok(u) ELSE o)
                                           ELSE q_result[t]]
    /\ u_ff' = [u_ff EXCEPT ![u] = IF @ = "failfast" THEN "recovered" ELSE "open"]
    /\ u_elapsed' = [u_elapsed EXCEPT ![u] = 0]
    /\ q_phase' = [t \in Tasks |-> IF t \in Queued(u) THEN "done" ELSE q_phase[t]]
    /\ UNCHANGED <<c_cache, c_pc, c_key, c_handle, c_path, c_builds, c_units, u_key>>
    /\ OutsideCache

CacheSpecInit ==
    /\ AcceptIdle
    /\ profile_domains = {<<"a">>}
    /\ IngressIdle
    /\ name_suffixes = {}
    /\ networks = {}
    /\ ResolveIdle
    /\ ServerIdle
    /\ CacheInit

CacheNext ==
    \/ \E t \in Tasks, k \in CacheKeys : NewInnerService(t, k)
    \/ \E t \in Tasks : CacheWrite(t)
    \/ \E t \in Tasks : CacheRelease(t)
    \/ \E k \in CacheKeys : CacheTick(k)
    \/ \E k \in CacheKeys : CacheEvict(k)

SpecCache == CacheSpecInit /\ [][CacheNext]_vars

\* The requests at the units: lookups, calls, the FailFast timers and the
\* readiness of the units, with the cache's idle clock at rest.
UnitNext ==
    \/ \E t \in Tasks, k \in CacheKeys : NewInnerService(t, k)
    \/ \E t \in Tasks : CacheWrite(t)
    \/ \E t \in Tasks : CacheRelease(t)
    \/ \E t \in Tasks : UnitCall(t)
    \/ \E u \in Units : UnitTick(u)
    \/ \E u \in Units : UnitTimeout(u)
    \/ \E u \in Units : UnitReady(u)

SpecUnit == CacheSpecInit /\ [][UnitNext]_vars

\* C9: for every key, under any interleaving of lookups, at most one unit is
\* constructed while the key's entry is live: the tasks that hold the key
\* hold the same unit instance, the one in the cache, also when their
\* first-time lookups of the missing key ran concurrently.
C9_SingleConstruction ==
    \A k \in CacheKeys :
        /\ c_builds[k] <= 1
        /\ c_builds[k] = 1 <=> c_cache[k] # None
        /\ \A t \in Holders(k) :
              /\ c_cache[k] # None
              /\ c_handle[t] = c_cache[k].unit
        /\ \A t, u \in Holders(k) : c_handle[t] = c_handle[u]

\* Two tasks missed the same key under the read lock; one built the unit and
\* the other found it under the write lock.
C9_Witness ==
    \E t, u \in Tasks :
        /\ t # u
        /\ c_pc[t] = "holding" /\ c_pc[u] = "holding"
        /\ c_key[t] = c_key[u]
        /\ c_path[t] = "built" /\ c_path[u] = "raced"
        /\ c_handle[t] = c_handle[u]

(***************************************************************************)
(* Destination resolver: dst/resolve.rs                                    *)
(***************************************************************************)
AddrBits == 2
MaxFailures == 2
MaxEvents == 2

\* IP addresses of both families, AddrBits wide.
IpAddrs == [family : {"V4", "V6"}, bits : 0..(2 ^ AddrBits - 1)]

\* IpNet values that may be configured: family, address and prefix length.
IpNets ==
    {[family |-> "V4", addr |-> 0, prefix_len |-> 1],
     [family |-> "V4", addr |-> 3, prefix_len |-> 2],
     [family |-> "V6", addr |-> 2, prefix_len |-> 1]}

ResolveNames == {<<"a">>, <<"b">>, <<"b", ".", "a">>}

\* Concrete targets: Addr::Name or Addr::Socket.
ResolveTargets ==
    {[dst |-> [kind |-> "Name", name |-> n, port |-> DefaultPort]] : n \in ResolveNames}
    \cup {[dst |-> [kind |-> "Socket", ip |-> a, port |-> DefaultPort]] : a \in IpAddrs}

Codes == {"InvalidArgument", "Unavailable", "Internal"}
Status(code) == [kind |-> "Status", code |-> code]
\* What the discovery call or stream can fail with: a gRPC status, or an
\* error that is no status.
DiscoveryErrors == {Status(c) : c \in Codes} \cup {[kind |-> "Other"]}

ResolveRejected == [kind |-> "Err", error |-> "DiscoveryRejected"]

\* Ipv4Net::contains / Ipv6Net::contains: the address has the net's prefix.
NetContains(net, bits) ==
    LET shift == 2 ^ (AddrBits - net.prefix_len) IN
    (bits \div shift) = (net.addr \div shift)

\* A variant of the permission test that lets a network permit an address of
\* the other family.
PermittedAnyFamily(sfxs, nets, t) ==
    IF t.dst.kind = "Name"
    THEN \E sfx \in sfxs : SuffixContains(sfx, t.dst.name)
    ELSE \E net \in nets : NetContains(net, t.dst.ip.bits)

\* PermitConfiguredDsts::filter (resolve.rs:68-86)
Permitted(sfxs, nets, t) ==
    IF t.dst.kind = "Name"
    THEN \E sfx \in sfxs : SuffixContains(sfx, t.dst.name)
    ELSE \E net \in nets :
            CASE net.family = "V4" /\ t.dst.ip.family = "V4" -> NetContains(net, t.dst.ip.bits)
              [] net.family = "V6" /\ t.dst.ip.family = "V6" -> NetContains(net, t.dst.ip.bits)
              [] OTHER -> FALSE

\* A variant of the filter that lets every target through.
filterPermitAll(sfxs, nets, t) == [ok |-> TRUE, target |-> t]

filter(sfxs, nets, t) ==
    IF Permitted(sfxs, nets, t)
    THEN [ok |-> TRUE, target |-> t]
    ELSE [ok |-> FALSE, err |-> ResolveRejected]

\* Variants of recover: (a) a backoff after every failure; (b) no backoff
\* after any Status, whatever its code.
recoverAlways(err) == [ok |-> TRUE]

recoverNoStatus(err) ==
    IF err.kind = "Status"
    THEN [ok |-> FALSE, err |-> ResolveRejected]
    ELSE [ok |-> TRUE]

\* BackoffUnlessInvalidArgument::recover (resolve.rs:101-112): a backoff
\* stream, unless the error is a Status with code InvalidArgument.
recover(err) ==
    IF err.kind = "Status" /\ err.code = "InvalidArgument"
    THEN [ok |-> FALSE, err |-> ResolveRejected]
    ELSE [ok |-> TRUE]

\* A variant of the stack with the recovery outermost: the filter is then one
\* of the layers the recovery calls again.
ResolveRecoverOutermost == <<"recover", "request_filter", "api_resolve">>

\* Resolve<S> (resolve.rs:15-18), as new builds it (resolve.rs:33-39): the
\* layers of the resolver, outermost first.
Resolve == <<"request_filter", "recover", "api_resolve">>

\* The layers under a layer of the stack: the ones its calls go to.
Inner(layer) ==
    {Resolve[j] : j \in {i \in DOMAIN Resolve :
                            \E k \in DOMAIN Resolve : Resolve[k] = layer /\ k < i}}

OutsideResolve == UNCHANGED <<acceptVars, ingressVars, cacheVars, serverVars>>

ResolveInit ==
    /\ AcceptIdle
    /\ profile_domains = {}
    /\ IngressIdle
    /\ CacheIdle
    /\ name_suffixes \in SUBSET Suffixes
    /\ networks \in SUBSET IpNets
    /\ ResolveIdle
    /\ ServerIdle

\* A resolution request: the permission filter, then (for a permitted
\* target) the recovering Resolution, which issues the discovery call.
ResolveRequest(t) ==
    /\ r_stage = "idle"
    /\ r_target' = t
    /\ r_filtered' = r_filtered + 1
    /\ LET f == filter(name_suffixes, networks, t) IN
       IF f.ok
       THEN /\ r_stage' = "connecting"
            /\ r_calls' = 1
            /\ r_error' = None
       ELSE /\ r_stage' = "rejected"
            /\ r_calls' = 0
            /\ r_error' = f.err
    /\ UNCHANGED <<name_suffixes, networks, r_backoffs, r_errs, r_events>>
    /\ OutsideResolve

\* The discovery call answers with a stream.
Connected ==
    /\ r_stage = "connecting"
    /\ r_stage' = "streaming"
    /\ UNCHANGED <<name_suffixes, networks, r_target, r_filtered, r_calls,
                   r_backoffs, r_errs, r_events, r_error>>
    /\ OutsideResolve

\* The stream yields an update, which the consumer receives.
Update ==
    /\ r_stage = "streaming"
    /\ r_events < MaxEvents
    /\ r_events' = r_events + 1
    /\ UNCHANGED <<name_suffixes, networks, r_stage, r_target, r_filtered,
                   r_calls, r_backoffs, r_errs, r_error>>
    /\ OutsideResolve

\* The discovery call or its stream fails: recover decides between a backoff
\* and the end of the Resolution.
Fail(err) ==
    /\ r_stage \in {"connecting", "streaming"}
    /\ Len(r_errs) < MaxFailures
    /\ r_errs' = Append(r_errs, err)
    /\ LET r == recover(err) IN
       IF r.ok
       THEN /\ r_stage' = "backoff"
            /\ r_backoffs' = r_backoffs + 1
            /\ r_error' = None
       ELSE /\ r_stage' = "failed"
            /\ r_backoffs' = r_backoffs
            /\ r_error' = r.err
    /\ UNCHANGED <<name_suffixes, networks, r_target, r_filtered, r_calls, r_events>>
    /\ OutsideResolve

\* The backoff delay is over: the recovery calls the layers under it again,
\* which issues the discovery call again.
BackoffElapsed ==
    /\ r_stage = "backoff"
    /\ IF "request_filter" \in Inner("recover")
       THEN LET f == filter(name_suffixes, networks, r_target) IN
            /\ r_filtered' = r_filtered + 1
            /\ IF f.ok
               THEN /\ r_stage' = "connecting"
                    /\ r_calls' = r_calls + 1
                    /\ r_error' = r_error
               ELSE /\ r_stage' = "rejected"
                    /\ r_calls' = r_calls
                    /\ r_error' = f.err
       ELSE /\ r_stage' = "connecting"
            /\ r_calls' = r_calls + 1
            /\ UNCHANGED <<r_filtered, r_error>>
    /\ UNCHANGED <<name_suffixes, networks, r_target, r_backoffs, r_errs, r_events>>
    /\ OutsideResolve

\* The consumer drops the Resolution (or the failed request).
DropResolution ==
    /\ r_stage # "idle"
    /\ r_stage' = "idle"
    /\ r_target' = None
    /\ r_filtered' = 0
    /\ r_calls' = 0
    /\ r_backoffs' = 0
    /\ r_errs' = <<>>
    /\ r_events' = 0
    /\ r_error' = None
    /\ UNCHANGED <<name_suffixes, networks>>
    /\ OutsideResolve

ResolveNext ==
    \/ \E t \in ResolveTargets : ResolveRequest(t)
    \/ Connected
    \/ Update
    \/ \E e \in DiscoveryErrors : Fail(e)
    \/ BackoffElapsed
    \/ DropResolution

SpecResolve == ResolveInit /\ [][ResolveNext]_vars

(***************************************************************************)
(* Destination resolver: properties                                        *)
(***************************************************************************)
LastErr == r_errs[Len(r_errs)]

\* C10: when the discovery call or stream fails with a Status whose code is
\* InvalidArgument, the Resolution ends with the DiscoveryRejected error, no
\* backoff is started for that failure and the call is not issued again:
\* every earlier failure had its backoff and its new call, this one has none.
C10_InvalidArgumentAborts ==
    (r_errs # <<>> /\ LastErr = Status("InvalidArgument")) =>
        /\ r_stage = "failed"
        /\ r_error = ResolveRejected
        /\ r_backoffs = Len(r_errs) - 1
        /\ r_calls = Len(r_errs)

\* An InvalidArgument failure after a transient failure that was retried.
C10_Witness ==
    /\ Len(r_errs) >= 2
    /\ LastErr = Status("InvalidArgument")
    /\ r_stage = "failed"
    /\ r_error = ResolveRejected
    /\ r_calls = 2

\* The resolver with the scheduling the runtime gives it: a started backoff
\* delay elapses, and a discovery call that does not fail is answered.
SpecResolveFair ==
    /\ ResolveInit
    /\ [][ResolveNext]_vars
    /\ WF_vars(BackoffElapsed)
    /\ WF_vars(Connected)

\* Every failure so far was transient: none is an InvalidArgument status.
AllTransient == \A i \in DOMAIN r_errs : r_errs[i] # Status("InvalidArgument")

\* After a transient failure: one backoff per failure, nothing surfaced, and
\* one new discovery call per elapsed backoff.
TransientRetried ==
    (r_errs # <<>> /\ LastErr # Status("InvalidArgument")) =>
        /\ AllTransient
        /\ r_stage \in {"backoff", "connecting", "streaming"}
        /\ r_error = None
        /\ r_backoffs = Len(r_errs)
        /\ r_stage = "backoff" => r_calls = Len(r_errs)
        /\ r_stage \in {"connecting", "streaming"} => r_calls = Len(r_errs) + 1

\* C11: a discovery failure that is no InvalidArgument status (another code,
\* or no status at all) starts a backoff and is not surfaced; when the delay
\* is over the call is issued again, unless the consumer dropped the
\* Resolution; once the failures stop the Resolution streams again, and the
\* calls issued again by then are as many as the transient failures.
C11_TransientFailuresRetried ==
    /\ []TransientRetried
    /\ (r_stage = "backoff") ~> (r_stage \in {"connecting", "idle"})
    /\ (r_stage = "backoff") ~> (r_stage \in {"streaming", "failed", "idle"})

\* Streaming again after two transient failures, one of them no status.
C11_Witness ==
    /\ r_stage = "streaming"
    /\ Len(r_errs) = 2
    /\ AllTransient
    /\ \E i \in DOMAIN r_errs : r_errs[i].kind = "Other"
    /\ r_calls = 3
    /\ r_backoffs = 2
    /\ r_error = None

\* The target is a name in none of the configured suffixes, or a socket
\* address in none of the configured networks of its own family.
OutsideConfigured(t) ==
    IF t.dst.kind = "Name"
    THEN \A sfx \in name_suffixes : ~SuffixContains(sfx, t.dst.name)
    ELSE \A net \in networks :
            \/ net.family # t.dst.ip.family
            \/ ~NetContains(net, t.dst.ip.bits)

\* C12: a resolution request whose target the permission filter rejects
\* fails at once with DiscoveryRejected; the recovering Resolution is not
\* entered and the discovery call is never issued for it.
C12_RejectedNeverResolved ==
    (r_target # None /\ OutsideConfigured(r_target)) =>
        /\ r_stage = "rejected"
        /\ r_error = ResolveRejected
        /\ r_calls = 0
        /\ r_backoffs = 0
        /\ r_errs = <<>>
        /\ r_events = 0

\* A rejected socket target, with networks configured.
C12_Witness ==
    /\ r_stage = "rejected"
    /\ r_target.dst.kind = "Socket"
    /\ networks # {}
    /\ r_calls = 0
    /\ r_error = ResolveRejected

\* C13: the filter permits a target exactly when it is a name that some
\* configured suffix contains, or a socket address that some configured
\* network of its own address family contains; networks of the other family,
\* suffixes for sockets and networks for names permit nothing; a permitted
\* target comes back unchanged.
C13_FilterPermitsExactly ==
    /\ \A t \in ResolveTargets :
          LET f == filter(name_suffixes, networks, t) IN
          /\ f.ok <=> ~OutsideConfigured(t)
          /\ f.ok => f.target = t
          /\ ~f.ok => f.err = ResolveRejected
    /\ r_target # None =>
          /\ (r_stage = "rejected") <=> OutsideConfigured(r_target)
          /\ r_filtered = 1

\* A V6 address rejected although a configured V4 network has its bits.
C13_Witness ==
    /\ r_stage = "rejected"
    /\ r_target.dst.kind = "Socket"
    /\ r_target.dst.ip.family = "V6"
    /\ \E net \in networks : net.family = "V4" /\ NetContains(net, r_target.dst.ip.bits)
    /\ name_suffixes = Suffixes

\* ---------------------------------------------------------------------
\* The override header and the constructed unit
\* ---------------------------------------------------------------------

\* C16: a request that reaches a constructed unit carries no
\* l5d-dst-override header: the router reads the header to choose the key,
\* then the header is stripped before the unit sees the request, for a
\* Forward and for an Override target alike.
C16_UnitNeverSeesOverride ==
    i_unit_req # None =>
        /\ i_unit_req.dst_override = None
        /\ i_stage = "dispatched"
        /\ i_route # None
        /\ ExtractTarget(i_conn, i_req).ok
        /\ i_key = ExtractTarget(i_conn, i_req).key
        /\ i_req.dst_override # None => i_key.target.kind = "Override"
        /\ i_req.dst_override = None => i_key.target.kind = "Forward"

\* A request that came with an override header, was routed by it to a
\* Logical target, and reached the unit without the header.
C16_Witness ==
    /\ i_stage = "dispatched"
    /\ i_req.dst_override # None
    /\ i_key.target.kind = "Override"
    /\ i_route.kind = "Logical"
    /\ i_unit_req # None
    /\ i_unit_req.dst_override = None

\* ---------------------------------------------------------------------
\* The protocol gate
\* ---------------------------------------------------------------------

Arrives(t) == q_phase[t] = "none" /\ q_phase'[t] # "none"

\* C15: a request waits on an unready unit only while the unit's FailFast
\* timer runs, and that timer never runs past the dispatch timeout; when it
\* expires every waiting request fails with the fail-fast error, and a
\* request that arrives while the unit is in fail-fast and still not ready
\* fails with it at once; nothing else yields the fail-fast error.
C15_FailFastBoundsWaiting ==
    /\ [](\A u \in Units :
            /\ u_elapsed[u] <= DispatchTimeout
            /\ Queued(u) # {} => u_state[u] = "pending" /\ u_ff[u] = "waiting")
    /\ [][\A u \in Units :
            (u_ff[u] = "waiting" /\ u_ff'[u] = "failfast") =>
                /\ u_elapsed[u] = DispatchTimeout
                /\ \A t \in Queued(u) :
                      /\ q_phase'[t] = "done"
                      /\ q_result'[t] = FailFastError("HTTP Logical")]_vars
    /\ [][\A t \in Tasks :
            (Arrives(t) /\ u_state[c_handle[t]] = "pending"
                        /\ u_ff[c_handle[t]] = "failfast") =>
                /\ q_phase'[t] = "done"
                /\ q_result'[t] = FailFastError("HTTP Logical")]_vars
    /\ [][\A t \in Tasks :
            (q_result[t] = None /\ q_result'[t] = FailFastError("HTTP Logical")) =>
                /\ u_state'[c_handle[t]] = "pending"
                /\ u_ff'[c_handle[t]] = "failfast"]_vars

\* Two requests failed by the fail-fast of the same unit, which is still
\* not ready.
C15_Witness ==
    \E t, t2 \in Tasks :
        /\ t # t2
        /\ c_handle[t] = c_handle[t2]
        /\ c_pc[t] = "holding" /\ c_pc[t2] = "holding"
        /\ q_result[t] = FailFastError("HTTP Logical")
        /\ q_result[t2] = FailFastError("HTTP Logical")
        /\ c_path[t2] = "hit"
        /\ u_state[c_handle[t]] = "pending"
        /\ u_ff[c_handle[t]] = "failfast"

\* C20: a fail-fast timeout ends the waiting requests only: the unit stays
\* pending and cached, and its readiness goes on being driven, with or
\* without a request waiting for it; once the unit is ready a request that
\* arrives for its key is served by that same unit, also after a fail-fast.
C20_FailFastLeavesUnitRunning ==
    /\ [](\A u \in Units :
            (u_state[u] = "pending" /\ Alive(u)) => ENABLED UnitReady(u))
    /\ [][\A u \in Units :
            (u_ff[u] = "waiting" /\ u_ff'[u] = "failfast") =>
                /\ u_state'[u] = "pending"
                /\ Alive(u)'
                /\ c_cache' = c_cache
                /\ c_handle' = c_handle
                /\ c_units' = c_units]_vars
    /\ [][\A t \in Tasks :
            (Arrives(t) /\ u_state[c_handle[t]] = "ready") =>
                /\ q_phase'[t] = "done"
                /\ q_result'[t] = Ok(c_handle[t])]_vars
    /\ [](\A t \in Tasks :
            q_result[t].kind = "Ok" =>
                /\ c_pc[t] = "holding"
                /\ q_result[t].unit = c_handle[t]
                /\ c_cache[c_key[t]] # None
                /\ c_cache[c_key[t]].unit = c_handle[t]
                /\ u_key[c_handle[t]] = c_key[t]
                /\ u_state[c_handle[t]] = "ready")

\* A unit that went into fail-fast and failed a request, became ready
\* afterwards, and then served a request that found it in the cache.
C20_Witness ==
    \E t, t2 \in Tasks :
        /\ q_result[t] = FailFastError("HTTP Logical")
        /\ c_handle[t2] = c_handle[t]
        /\ c_path[t2] = "hit"
        /\ q_result[t2] = Ok(c_handle[t])
        /\ u_ff[c_handle[t]] = "recovered"
        /\ u_state[c_handle[t]] = "ready"

\* C19: a cache entry is removed only when no request holds its unit and it
\* has been unused for the configured idle age; the removal leaves every
\* task, handle and result as it was, so a unit that is held is never
\* dropped; and a lookup of a key whose entry was removed constructs a unit
\* that did not exist before.
C19_EvictionOnlyWhenIdle ==
    /\ [][\A k \in CacheKeys :
            (c_cache[k] # None /\ c_cache'[k] = None) =>
                /\ Holders(k) = {}
                /\ c_cache[k].idle >= MaxIdleAge
                /\ c_pc' = c_pc
                /\ c_key' = c_key
                /\ c_handle' = c_handle
                /\ q_phase' = q_phase
                /\ q_result' = q_result]_vars
    /\ [](\A t \in Tasks :
            c_pc[t] = "holding" =>
                /\ u_state[c_handle[t]] \notin {"unbuilt", "dropped"}
                /\ c_cache[c_key[t]] # None
                /\ c_cache[c_key[t]].unit = c_handle[t]
                /\ c_cache[c_key[t]].idle = 0)
    /\ [][\A k \in CacheKeys :
            (c_cache[k] = None /\ c_cache'[k] # None) =>
                /\ c_cache'[k].unit = c_units + 1
                /\ u_state[c_units + 1] = "unbuilt"
                /\ u_state'[c_units + 1] = "pending"
                /\ u_key'[c_units + 1] = k]_vars

\* The entry of a key was removed and its unit dropped; a later lookup of
\* the same key built another unit, which a task now holds.
C19_Witness ==
    \E t \in Tasks, u \in Units :
        /\ u_state[u] = "dropped"
        /\ c_pc[t] = "holding"
        /\ u_key[u] = c_key[t]
        /\ c_path[t] = "built"
        /\ c_handle[t] # u
        /\ u_state[c_handle[t]] = "pending"

(***************************************************************************)
(* The ingress server: the router under ConcurrencyLimit and FailFast      *)
(* (ingress.rs:172-212)                                                    *)
(***************************************************************************)
NReqs == 2
MaxInFlight == 1

Reqs == 1..NReqs

\* The requests the server is given: without the override header, with a
\* valid one, with one that is no host[:port].
ServerRequests ==
    {[dst_override |-> None],
     [dst_override |-> Some(<<"a">>)],
     [dst_override |-> Some(<<":">>)]}

\* config.proxy.max_in_flight_requests, given to ConcurrencyLimit::layer
\* (ingress.rs:85, 201)
max_in_flight_requests == MaxInFlight

InFlight == {r \in Reqs : s_st[r] = "inflight"}
Waiting == {r \in Reqs : s_st[r] = "waiting"}

\* A server stack without the concurrency limit.
LimitReadyAlways(n) == TRUE

\* ConcurrencyLimit (ingress.rs:195-201): with n requests in flight the
\* service is ready while a permit is left; at the limit it is not ready,
\* which is what "can force the service into fail-fast".
LimitReady(n) == n < max_in_flight_requests

\* What a request routed to the unit of key k may come to: it is served, or
\* the unit's construction failed, or the unit is in fail-fast.
Responses(k) == UnitOutcomes(k) \cup {FailFastError("HTTP Logical")}

ServerInit ==
    /\ AcceptIdle
    /\ profile_domains = {<<"a">>}
    /\ IngressIdle
    /\ CacheIdle
    /\ name_suffixes = {}
    /\ networks = {}
    /\ ResolveIdle
    /\ s_stage = "idle"
    /\ s_conn = None
    /\ s_error = None
    /\ s_ff = "open"
    /\ s_elapsed = 0
    /\ s_st = [r \in Reqs |-> "none"]
    /\ s_rq = [r \in Reqs |-> None]
    /\ s_key = [r \in Reqs |-> None]
    /\ s_result = [r \in Reqs |-> None]

OutsideServer == UNCHANGED <<acceptVars, ingressVars, cacheVars, resolveVars>>

\* A connection is accepted; the request filter admits it if HTTP was
\* detected on it.
ServerAccept(orig_dst, detected) ==
    /\ s_stage = "idle"
    /\ LET f == RequestFilter(detected, orig_dst) IN
       IF f.ok
       THEN /\ s_stage' = "serving"
            /\ s_conn' = f.accept
            /\ s_error' = None
       ELSE /\ s_stage' = "rejected"
            /\ s_conn' = None
            /\ s_error' = f.err
    /\ UNCHANGED <<s_ff, s_elapsed, s_st, s_rq, s_key, s_result>>
    /\ OutsideServer

\* The connection ends, with no request on it.
ServerClose ==
    /\ s_stage \in {"rejected", "serving"}
    /\ \A r \in Reqs : s_st[r] = "none"
    /\ s_stage' = "idle"
    /\ s_conn' = None
    /\ s_error' = None
    /\ UNCHANGED <<s_ff, s_elapsed, s_st, s_rq, s_key, s_result>>
    /\ OutsideServer

\* The router is called with request r: the request is in flight to the
\* unit of its key, or fails at once when the key cannot be computed.
\* FailFast, having seen the limit ready, is open; it waits anew when other
\* requests are left waiting and the permit just taken was the last.
Call(r, req, left) ==
    LET e == ExtractTarget(s_conn, req)
        n == Cardinality(InFlight) + (IF e.ok THEN 1 ELSE 0)
    IN  /\ s_st' = [s_st EXCEPT ![r] = IF e.ok THEN "inflight" ELSE "done"]
        /\ s_key' = [s_key EXCEPT ![r] = IF e.ok THEN e.key ELSE None]
        /\ s_result' = [s_result EXCEPT ![r] = IF e.ok THEN None ELSE e.err]
        /\ s_ff' = IF left # {} /\ ~LimitReady(n) THEN "waiting" ELSE "open"
        /\ s_elapsed' = 0

\* Request r arrives.  With a permit left it is called.  At the limit it
\* waits for a permit, FailFast timing the wait; with FailFast in fail-fast
\* it fails at once.
Arrive(r, req) ==
    /\ s_stage = "serving"
    /\ s_st[r] = "none"
    /\ s_rq' = [s_rq EXCEPT ![r] = req]
    /\ IF LimitReady(Cardinality(InFlight))
       THEN Call(r, req, Waiting)
       ELSE IF s_ff = "failfast"
       THEN /\ s_st' = [s_st EXCEPT ![r] = "done"]
            /\ s_result' = [s_result EXCEPT ![r] = FailFastError("Ingress server")]
            /\ UNCHANGED <<s_ff, s_elapsed, s_key>>
       ELSE /\ s_st' = [s_st EXCEPT ![r] = "waiting"]
            /\ s_ff' = "waiting"
            /\ s_elapsed' = IF s_ff = "waiting" THEN s_elapsed ELSE 0
            /\ UNCHANGED <<s_key, s_result>>
    /\ UNCHANGED <<s_stage, s_conn, s_error>>
    /\ OutsideServer

\* A permit is free again and a waiting request takes it.
Admit(r) ==
    /\ s_st[r] = "waiting"
    /\ LimitReady(Cardinality(InFlight))
    /\ Call(r, s_rq[r], Waiting \ {r})
    /\ UNCHANGED <<s_stage, s_conn, s_error, s_rq>>
    /\ OutsideServer

\* The unit answers request r, which gives its permit back.
Respond(r) ==
    /\ s_st[r] = "inflight"
    /\ \E o \in Responses(s_key[r]) :
          s_result' = [s_result EXCEPT ![r] = o]
    /\ s_st' = [s_st EXCEPT ![r] = "done"]
    /\ UNCHANGED <<s_stage, s_conn, s_error, s_ff, s_elapsed, s_rq, s_key>>
    /\ OutsideServer

\* Time passes while requests wait for a permit.
ServerTick ==
    /\ s_ff = "waiting"
    /\ ~LimitReady(Cardinality(InFlight))
    /\ s_elapsed < dispatch_timeout
    /\ s_elapsed' = s_elapsed + 1
    /\ UNCHANGED <<s_stage, s_conn, s_error, s_ff, s_st, s_rq, s_key, s_result>>
    /\ OutsideServer

\* No permit came free within the dispatch timeout: FailFast enters
\* fail-fast and every waiting request fails.
ServerTimeout ==
    /\ s_ff = "waiting"
    /\ ~LimitReady(Cardinality(InFlight))
    /\ s_elapsed >= dispatch_timeout
    /\ s_ff' = "failfast"
    /\ s_elapsed' = 0
    /\ s_st' = [r \in Reqs |-> IF r \in Waiting THEN "done" ELSE s_st[r]]
    /\ s_result' = [r \in Reqs |-> IF r \in Waiting
                                   THEN FailFastError("Ingress server")
                                   ELSE s_result[r]]
    /\ UNCHANGED <<s_stage, s_conn, s_error, s_rq, s_key>>
    /\ OutsideServer

\* The outcome of request r has been delivered.
Forget(r) ==
    /\ s_st[r] = "done"
    /\ s_st' = [s_st EXCEPT ![r] = "none"]
    /\ s_rq' = [s_rq EXCEPT ![r] = None]
    /\ s_key' = [s_key EXCEPT ![r] = None]
    /\ s_result' = [s_result EXCEPT ![r] = None]
    /\ UNCHANGED <<s_stage, s_conn, s_error, s_ff, s_elapsed>>
    /\ OutsideServer

ServerNext ==
    \/ \E o \in OrigDsts, d \in Detected : ServerAccept(o, d)
    \/ ServerClose
    \/ \E r \in Reqs, req \in ServerRequests : Arrive(r, req)
    \/ \E r \in Reqs : Admit(r)
    \/ \E r \in Reqs : Respond(r)
    \/ ServerTick
    \/ ServerTimeout
    \/ \E r \in Reqs : Forget(r)

SpecServer == ServerInit /\ [][ServerNext]_vars

(***************************************************************************)
(* The ingress server: properties                                          *)
(***************************************************************************)

\* Request r arrives at the server in this step.
ServerArrives(r) == s_st[r] = "none" /\ s_st'[r] # "none"

AtLimit == Cardinality(InFlight) >= MaxInFlight

\* C14, as the specification words it: the requests in flight never exceed
\* the maximum, and a request that arrives at the limit is rejected at
\* once: no request is ever waiting for admission.
C14_AtLimitRejectedAtOnce ==
    /\ Cardinality(InFlight) <= MaxInFlight
    /\ Waiting = {}

\* C14: the requests in flight never exceed the configured maximum.  A
\* request that arrives at the limit waits for a permit while the server's
\* FailFast is not in fail-fast, for the dispatch timeout at most; when the
\* timeout expires the waiting requests fail with the fail-fast error, and
\* while the server stays in fail-fast a request arriving at the limit fails
\* with it at once.  None of this depends on what the units answer.
C14_LimitForcesFailFast ==
    /\ [](Cardinality(InFlight) <= MaxInFlight)
    /\ []((Waiting # {} /\ AtLimit) => (s_ff = "waiting" /\ s_elapsed <= DispatchTimeout))
    /\ [](s_ff = "failfast" => Waiting = {})
    /\ [][\A r \in Reqs :
            ServerArrives(r) =>
                IF ~AtLimit
                THEN s_st'[r] = "inflight" \/ s_result'[r] = InvalidOverrideHeader
                ELSE IF s_ff = "failfast"
                THEN /\ s_st'[r] = "done"
                     /\ s_result'[r] = FailFastError("Ingress server")
                ELSE /\ s_st'[r] = "waiting"
                     /\ s_result'[r] = None]_vars
    /\ [][\A r \in Reqs :
            (s_result[r] = None /\ s_result'[r] = FailFastError("Ingress server")) =>
                /\ AtLimit
                /\ s_ff' = "failfast"
                /\ s_st[r] = "waiting" => s_elapsed = DispatchTimeout]_vars

\* A request waiting for a permit while the only permit is held by a request
\* in flight, with the FailFast timer running.
C14_Witness ==
    \E r, r2 \in Reqs :
        /\ s_st[r] = "inflight"
        /\ s_st[r2] = "waiting"
        /\ AtLimit
        /\ s_ff = "waiting"
        /\ s_elapsed = DispatchTimeout

\* The kind of an error: the error type, whatever values it carries.
ErrorKind(e) == e.error

Rejected == {r \in Reqs : s_result[r] # None /\ s_result[r].kind = "Err"}

HeaderUnparseable(req) ==
    /\ req.dst_override # None
    /\ ~from_authority_with_default_port(req.dst_override.v, DefaultPort).ok

\* C18, as the specification words it: the rejection paths yield pairwise
\* distinct error kinds, so two requests rejected with different errors
\* never carry the same kind.
C18_PathsPairwiseDistinct ==
    \A r, r2 \in Rejected :
        s_result[r] # s_result[r2] => ErrorKind(s_result[r]) # ErrorKind(s_result[r2])

\* C18: a request that is over has exactly one outcome, served or one
\* error, and a request that is not over has none; the error is
\* InvalidOverrideHeader only for an unparseable override header, which
\* never gets past the router, ProfileRequired only for an Override key,
\* and otherwise the fail-fast error of the server (before the router) or of
\* a unit; a rejected connection carries IngressHttpOnly and no request.  The
\* kinds FailFast, ProfileRequired, InvalidOverrideHeader and IngressHttpOnly
\* are pairwise distinct; reaching the concurrency limit has no kind of its
\* own: it surfaces as the fail-fast error of the server's FailFast, which
\* is of the same kind as the fail-fast error of a unit.
C18_OneErrorPerRejection ==
    /\ \A r \in Reqs :
          /\ s_st[r] = "done" <=> s_result[r] # None
          /\ s_result[r] # None =>
                \/ s_result[r] = Ok(0)
                \/ s_result[r] \in {InvalidOverrideHeader, ProfileRequired,
                                    FailFastError("HTTP Logical"),
                                    FailFastError("Ingress server")}
          /\ s_result[r] = InvalidOverrideHeader =>
                (HeaderUnparseable(s_rq[r]) /\ s_key[r] = None)
          /\ (s_st[r] \in {"inflight", "done"} /\ HeaderUnparseable(s_rq[r])) =>
                s_result[r] \in {InvalidOverrideHeader, FailFastError("Ingress server")}
          /\ s_result[r] = ProfileRequired =>
                (s_key[r] # None /\ s_key[r].target.kind = "Override")
          /\ s_result[r] = FailFastError("HTTP Logical") => s_key[r] # None
          /\ s_result[r] = FailFastError("Ingress server") => s_key[r] = None
    /\ s_stage = "rejected" <=> s_error = IngressHttpOnly
    /\ s_stage = "rejected" => \A r \in Reqs : s_st[r] = "none"
    /\ s_error \in {None, IngressHttpOnly}
    /\ Cardinality({ErrorKind(FailFastError("Ingress server")),
                    ErrorKind(ProfileRequired),
                    ErrorKind(InvalidOverrideHeader),
                    ErrorKind(IngressHttpOnly)}) = 4
    /\ ErrorKind(FailFastError("Ingress server")) = ErrorKind(FailFastError("HTTP Logical"))

\* One request failed by the server's fail-fast at the concurrency limit,
\* another failed by the fail-fast of its unit.
C18_Witness ==
    \E r, r2 \in Reqs :
        /\ s_st[r] = "done" /\ s_st[r2] = "done"
        /\ s_result[r] = FailFastError("Ingress server")
        /\ s_result[r2] = FailFastError("HTTP Logical")

(***************************************************************************)
(* Destination resolver: the filter and the retries                        *)
(***************************************************************************)
\* The Resolution lives: its request passed the filter and it has not ended.
ResolutionAlive == r_stage \in {"connecting", "streaming", "backoff"}

\* C21: the permission filter is evaluated exactly once for a resolution
\* request, and before the recovery is entered: a rejected request has no
\* discovery call, backoff or failure. A living Resolution is one whose target
\* passed the filter; no step of it evaluates the filter again or ends it as
\* rejected, and it ends only by an InvalidArgument failure or by its
\* consumer. A retry issues one more discovery call and no filter evaluation,
\* and every backoff of a Resolution that is kept leads to that retry.
C21_FilterOncePerRequest ==
    /\ [](r_target # None => r_filtered = 1)
    /\ [](r_stage = "rejected" => (r_calls = 0 /\ r_backoffs = 0 /\ r_errs = <<>>))
    /\ [](ResolutionAlive => ~OutsideConfigured(r_target))
    /\ [][ResolutionAlive =>
            /\ r_stage' # "rejected"
            /\ r_stage' = "failed" =>
                  (r_errs' # <<>> /\ r_errs'[Len(r_errs')] = Status("InvalidArgument"))
            /\ r_stage' # "idle" => (r_filtered' = r_filtered /\ r_target' = r_target)]_vars
    /\ [][(r_stage = "backoff" /\ r_stage' # "idle") =>
            /\ r_stage' = "connecting"
            /\ r_calls' = r_calls + 1
            /\ r_filtered' = r_filtered]_vars
    /\ \A n \in 1..MaxFailures :
          (r_stage = "backoff" /\ r_calls = n)
              ~> (r_stage = "idle" \/ (r_calls = n + 1 /\ r_filtered = 1))

\* The third discovery call of a Resolution for a socket target, after two
\* transient failures and their backoffs, with the filter evaluated once.
C21_Witness ==
    /\ r_stage = "connecting"
    /\ r_target.dst.kind = "Socket"
    /\ Len(r_errs) = 2
    /\ AllTransient
    /\ r_backoffs = 2
    /\ r_calls = 3
    /\ r_filtered = 1

=============================================================================
